---- MODULE Spec2Model ----
(***************************************************************************)
(* The TinyURL cron job of kernel-community/automation-scripts.            *)
(*                                                                         *)
(* Two entry points share one control flow: src/update.py (fields          *)
(* 'Name [Primary]', 'rec-id', 'url-to-send') and                          *)
(* src/update-tinyurl/update.py (fields 'Name', 'rec-id', 'big-url', and   *)
(* response bodies read for logging).  The variable `variant` says which   *)
(* of the two is running.  main() is a single coroutine; every await of   *)
(* main is one action, and the answers of the two HTTP services are        *)
(* chosen by the environment in the action that awaits them.               *)
(***************************************************************************)
EXTENDS Naturals, Sequences, FiniteSets, TLC

VARIABLES
    variant,            \* which entry point runs
    AIRTABLE_API_KEY,   \* os.getenv('AIRTABLE_API_KEY')
    TINYURL_API_TOKEN,  \* os.getenv('TINYURL_API_TOKEN')
    pc,                 \* position of main()
    session,            \* the aiohttp.ClientSession of main: "none", "open", "closed"
    records,            \* main's local `records`
    i,                  \* 1-based position of the loop's current record (python i + 1)
    success,            \* main's local `success`
    exc,                \* str(e) of the exception in flight, "" when there is none
    calls               \* history of every network call and sleep, in order

vars == <<variant, AIRTABLE_API_KEY, TINYURL_API_TOKEN, pc, session, records, i,
          success, exc, calls>>

-----------------------------------------------------------------------------
(* Bounds and input sets *)

\* Longest batch the store read returns.
MaxRecords == 2

\* Python's None (os.getenv of an unset variable, dict.get of a missing key).
None == "<None>"

Variants == {"update", "update-tinyurl"}

CredValues == {None, "", "secret"}

\* HTTP statuses the services answer with.
Statuses == {200, 422}

\* What the body of a response is: valid JSON, readable text that is not JSON,
\* or a payload whose read fails (connection lost mid-body).
Bodies == {"json", "malformed", "unreadable"}

\* str(e) of the exceptions aiohttp raises.
ConnectError == "Cannot connect to host"
JsonError == "Attempt to decode JSON with unexpected mimetype"
PayloadError == "Response payload is not completed"

RequestErrors == {ConnectError}

\* One awaited request: it raises, or it yields a response.
HttpOutcomes ==
    {[raised |-> TRUE, status |-> 0, body |-> "", msg |-> m] : m \in RequestErrors}
    \cup
    {[raised |-> FALSE, status |-> s, body |-> b, msg |-> ""] :
        s \in Statuses, b \in Bodies}

\* The record at position k of a batch: the store gives every record its own
\* id; each of the two fields is missing, empty, or a value of that record.
RecordsAt(k) ==
    {[id |-> "rec" \o ToString(k),
      fields |-> [rec_id |-> r, url |-> u]] :
        r \in {None, "", "x" \o ToString(k)},
        u \in {None, "", "http://long/" \o ToString(k)}}

Batches ==
    UNION {{b \in [1..n -> UNION {RecordsAt(k) : k \in 1..n}] :
                \A k \in 1..n : b[k] \in RecordsAt(k)} : n \in 0..MaxRecords}

-----------------------------------------------------------------------------
(* Helpers *)

\* Python truthiness of a str-or-None value: `not v` holds for None and "".
Falsy(v) == v = None \/ v = ""

\* The name of the URL field the entry point reads.
UrlField == IF variant = "update" THEN "url-to-send" ELSE "big-url"

\* Result of a coroutine: a returned value or a raised exception.
Return(v) == [raised |-> FALSE, value |-> v, msg |-> ""]
Raise(m) == [raised |-> TRUE, value |-> FALSE, msg |-> m]

\* await response.json()
ResponseJson(out) ==
    CASE out.body = "json" -> Return(TRUE)
      [] out.body = "malformed" -> Raise(JsonError)
      [] OTHER -> Raise(PayloadError)

\* await response.text()
ResponseText(out) ==
    IF out.body = "unreadable" THEN Raise(PayloadError) ELSE Return(TRUE)

-----------------------------------------------------------------------------
(* The three service coroutines, from the awaited request on.  `out` is what
   the request does; the result is what the coroutine returns or raises. *)

\* fetch_airtable_records of update.py; `data` is the parsed body's 'records'
\* list, [] when the key is absent.
fetch_airtable_records_update(out, data) ==
    IF out.raised THEN Raise(out.msg)
    ELSE IF out.status = 200
         THEN IF ResponseJson(out).raised
              THEN Raise(ResponseJson(out).msg)
              ELSE Return(data)
         ELSE Return(<<>>)

\* fetch_airtable_records of update-tinyurl/update.py: the body of a non-200
\* response is read for logging.
fetch_airtable_records_tinyurl(out, data) ==
    IF out.raised THEN Raise(out.msg)
    ELSE IF out.status = 200
         THEN IF ResponseJson(out).raised
              THEN Raise(ResponseJson(out).msg)
              ELSE Return(data)
         ELSE IF ResponseText(out).raised
              THEN Raise(ResponseText(out).msg)
              ELSE Return(<<>>)

\* fetch_airtable_records of the entry point that runs.
fetch_airtable_records(out, data) ==
    IF variant = "update"
    THEN fetch_airtable_records_update(out, data)
    ELSE fetch_airtable_records_tinyurl(out, data)

\* create_tinyurl of update.py: response.status == 200, the body is not read.
create_tinyurl_update(out) ==
    IF out.raised THEN Raise(out.msg) ELSE Return(out.status = 200)

\* create_tinyurl of update-tinyurl/update.py: the body is parsed on 200 and
\* read as text otherwise.
create_tinyurl_tinyurl(out) ==
    IF out.raised THEN Raise(out.msg)
    ELSE IF out.status = 200
         THEN IF ResponseJson(out).raised
              THEN Raise(ResponseJson(out).msg)
              ELSE Return(TRUE)
         ELSE IF ResponseText(out).raised
              THEN Raise(ResponseText(out).msg)
              ELSE Return(FALSE)

\* update_airtable_script_field of update.py.
update_airtable_script_field_update(out) ==
    IF out.raised THEN Raise(out.msg) ELSE Return(out.status = 200)

\* update_airtable_script_field of update-tinyurl/update.py without the read
\* of the body of a non-200 response.
update_airtable_script_field_tinyurl_BodyNotRead(out) ==
    IF out.raised THEN Raise(out.msg) ELSE Return(out.status = 200)

\* update_airtable_script_field of update-tinyurl/update.py: the body of a
\* non-200 response is read for logging.
update_airtable_script_field_tinyurl(out) ==
    IF out.raised THEN Raise(out.msg)
    ELSE IF out.status = 200
         THEN Return(TRUE)
         ELSE IF ResponseText(out).raised
              THEN Raise(ResponseText(out).msg)
              ELSE Return(FALSE)

\* create_tinyurl taking every status below 500 for a success.
create_tinyurl_Below500(out) ==
    IF out.raised THEN Raise(out.msg)
    ELSE IF variant = "update"
         THEN Return(out.status < 500)
         ELSE IF out.status < 500
              THEN IF ResponseJson(out).raised
                   THEN Raise(ResponseJson(out).msg)
                   ELSE Return(TRUE)
              ELSE IF ResponseText(out).raised
                   THEN Raise(ResponseText(out).msg)
                   ELSE Return(FALSE)

\* create_tinyurl of the entry point that runs.
create_tinyurl(out) ==
    IF variant = "update" THEN create_tinyurl_update(out) ELSE create_tinyurl_tinyurl(out)

\* update_airtable_script_field of the entry point that runs.
update_airtable_script_field(out) ==
    IF variant = "update"
    THEN update_airtable_script_field_update(out)
    ELSE update_airtable_script_field_tinyurl(out)

\* The alias create_tinyurl asks for.
Alias(alias) == "kb-" \o alias

\* asyncio.sleep(3)
PacingDelay == 3

-----------------------------------------------------------------------------
(* The history of calls: what was asked, and what the coroutine returned or
   raised.  The response itself is kept for the two calls whose claims speak
   of it. *)

NoResponse == [raised |-> FALSE, status |-> 0, body |-> "", msg |-> ""]

GetCall(out, res) ==
    [op |-> "get", i |-> 0, record_id |-> "", url |-> "", alias |-> "",
     domain |-> "", field |-> "",
     status_message |-> "", site |-> "fetch", delay |-> 0,
     http |-> out, raised |-> res.raised, value |-> ~res.raised, msg |-> res.msg]

PostCall(idx, url, alias, out, res) ==
    [op |-> "post", i |-> idx, record_id |-> "", url |-> url, alias |-> Alias(alias),
     domain |-> "tinyurl.com", field |-> "",
     status_message |-> "", site |-> "create", delay |-> 0,
     http |-> out, raised |-> res.raised, value |-> res.value, msg |-> res.msg]

\* Of the response to a status write the history keeps what an entry point can
\* tell: the status, and for a non-200 response whether its body can be read.
Observed(out) ==
    IF out.raised \/ out.status = 200
    THEN [out EXCEPT !.body = ""]
    ELSE [out EXCEPT !.body = IF out.body = "unreadable" THEN "unreadable"
                                                        ELSE "readable"]

PatchCall(idx, record_id, status_message, site, out, res) ==
    [op |-> "patch", i |-> idx, record_id |-> record_id, url |-> "", alias |-> "",
     domain |-> "", field |-> "script",
     status_message |-> status_message, site |-> site, delay |-> 0,
     http |-> Observed(out), raised |-> res.raised, value |-> res.value, msg |-> res.msg]

SleepCall(idx) ==
    [op |-> "sleep", i |-> idx, record_id |-> "", url |-> "", alias |-> "",
     domain |-> "", field |-> "",
     status_message |-> "", site |-> "pace", delay |-> PacingDelay,
     http |-> NoResponse,
     raised |-> FALSE, value |-> TRUE, msg |-> ""]

-----------------------------------------------------------------------------
(* main() *)

Init ==
    /\ variant \in Variants
    /\ AIRTABLE_API_KEY \in CredValues
    /\ TINYURL_API_TOKEN \in CredValues
    /\ pc = "start"
    /\ session = "none"
    /\ records = <<>>
    /\ i = 0
    /\ success = FALSE
    /\ exc = ""
    /\ calls = <<>>

\* CheckCredentials without the test of TINYURL_API_TOKEN.
CheckCredentials_KeyOnly ==
    /\ pc = "start"
    /\ pc' = IF Falsy(AIRTABLE_API_KEY) THEN "returned" ELSE "open_session"
    /\ UNCHANGED <<variant, AIRTABLE_API_KEY, TINYURL_API_TOKEN, session, records, i,
                   success, exc, calls>>

\* The two credential checks: return before the session is created.
CheckCredentials ==
    /\ pc = "start"
    /\ pc' = IF Falsy(AIRTABLE_API_KEY) THEN "returned"
             ELSE IF Falsy(TINYURL_API_TOKEN) THEN "returned"
             ELSE "open_session"
    /\ UNCHANGED <<variant, AIRTABLE_API_KEY, TINYURL_API_TOKEN, session, records, i,
                   success, exc, calls>>

\* async with aiohttp.ClientSession() as session
OpenSession ==
    /\ pc = "open_session"
    /\ session' = "open"
    /\ pc' = "fetch"
    /\ UNCHANGED <<variant, AIRTABLE_API_KEY, TINYURL_API_TOKEN, records, i, success,
                   exc, calls>>

\* Fetch with a session that is not a context manager: an exception of the
\* store read leaves it open.
Fetch_SessionLeak ==
    /\ pc = "fetch"
    /\ \E out \in HttpOutcomes, data \in Batches :
         LET res == fetch_airtable_records(out, data) IN
         /\ calls' = Append(calls, GetCall(out, res))
         /\ IF res.raised
            THEN /\ exc' = res.msg
                 /\ pc' = "raised"
                 /\ UNCHANGED <<records, session>>
            ELSE /\ records' = res.value
                 /\ pc' = "for"
                 /\ UNCHANGED <<exc, session>>
    /\ UNCHANGED <<variant, AIRTABLE_API_KEY, TINYURL_API_TOKEN, i, success>>

\* records = await fetch_airtable_records(session); an exception leaves the
\* `async with`, which closes the session, and then main.
Fetch ==
    /\ pc = "fetch"
    /\ \E out \in HttpOutcomes, data \in Batches :
         LET res == fetch_airtable_records(out, data) IN
         /\ calls' = Append(calls, GetCall(out, res))
         /\ IF res.raised
            THEN /\ exc' = res.msg
                 /\ session' = "closed"
                 /\ pc' = "raised"
                 /\ UNCHANGED records
            ELSE /\ records' = res.value
                 /\ pc' = "for"
                 /\ UNCHANGED <<exc, session>>
    /\ UNCHANGED <<variant, AIRTABLE_API_KEY, TINYURL_API_TOKEN, i, success>>

\* ForNext with `and` for `or` in the missing-field test.
ForNext_And ==
    /\ pc = "for"
    /\ IF i < Len(records)
       THEN /\ i' = i + 1
            /\ pc' = IF Falsy(records[i + 1].fields.rec_id)
                          /\ Falsy(records[i + 1].fields.url)
                     THEN "write_missing"
                     ELSE "create"
            /\ UNCHANGED session
       ELSE /\ pc' = "completed"
            /\ session' = "closed"
            /\ UNCHANGED i
    /\ UNCHANGED <<variant, AIRTABLE_API_KEY, TINYURL_API_TOKEN, records, success, exc,
                   calls>>

\* The head of the for loop and the missing-field test; past the last record
\* main logs "Cron job completed" and the `async with` closes the session.
ForNext ==
    /\ pc = "for"
    /\ IF i < Len(records)
       THEN /\ i' = i + 1
            /\ pc' = IF Falsy(records[i + 1].fields.rec_id)
                          \/ Falsy(records[i + 1].fields.url)
                     THEN "write_missing"
                     ELSE "create"
            /\ UNCHANGED session
       ELSE /\ pc' = "completed"
            /\ session' = "closed"
            /\ UNCHANGED i
    /\ UNCHANGED <<variant, AIRTABLE_API_KEY, TINYURL_API_TOKEN, records, success, exc,
                   calls>>

\* WriteMissing without the `continue`: the record falls through to the try.
WriteMissing_NoContinue ==
    /\ pc = "write_missing"
    /\ \E out \in HttpOutcomes :
         LET res == update_airtable_script_field(out) IN
         /\ calls' = Append(calls,
                PatchCall(i, records[i].id,
                          "error - missing rec-id or " \o UrlField, "validate", out, res))
         /\ IF res.raised
            THEN /\ exc' = res.msg
                 /\ session' = "closed"
                 /\ pc' = "raised"
            ELSE /\ pc' = "create"
                 /\ UNCHANGED <<exc, session>>
    /\ UNCHANGED <<variant, AIRTABLE_API_KEY, TINYURL_API_TOKEN, records, i, success>>

\* WriteMissing moved inside the try: its exception goes to the handler.
WriteMissing_InsideTry ==
    /\ pc = "write_missing"
    /\ \E out \in HttpOutcomes :
         LET res == update_airtable_script_field(out) IN
         /\ calls' = Append(calls,
                PatchCall(i, records[i].id,
                          "error - missing rec-id or " \o UrlField, "validate", out, res))
         /\ IF res.raised
            THEN /\ exc' = res.msg
                 /\ pc' = "except"
            ELSE /\ pc' = "for"
                 /\ UNCHANGED exc
    /\ UNCHANGED <<variant, AIRTABLE_API_KEY, TINYURL_API_TOKEN, session, records, i,
                   success>>

\* The status write of the missing-field branch, then `continue`.  It is not
\* inside the try: an exception leaves main.
WriteMissing ==
    /\ pc = "write_missing"
    /\ \E out \in HttpOutcomes :
         LET res == update_airtable_script_field(out) IN
         /\ calls' = Append(calls,
                PatchCall(i, records[i].id,
                          "error - missing rec-id or " \o UrlField, "validate", out, res))
         /\ IF res.raised
            THEN /\ exc' = res.msg
                 /\ session' = "closed"
                 /\ pc' = "raised"
            ELSE /\ pc' = "for"
                 /\ UNCHANGED <<exc, session>>
    /\ UNCHANGED <<variant, AIRTABLE_API_KEY, TINYURL_API_TOKEN, records, i, success>>

\* Create with the two arguments of create_tinyurl exchanged.
Create_SwappedArguments ==
    /\ pc = "create"
    /\ \E out \in HttpOutcomes :
         LET res == create_tinyurl(out) IN
         /\ calls' = Append(calls,
                PostCall(i, records[i].fields.rec_id, records[i].fields.url, out, res))
         /\ IF res.raised
            THEN /\ exc' = res.msg
                 /\ pc' = "except"
                 /\ UNCHANGED success
            ELSE /\ success' = res.value
                 /\ pc' = "write_status"
                 /\ UNCHANGED exc
    /\ UNCHANGED <<variant, AIRTABLE_API_KEY, TINYURL_API_TOKEN, session, records, i>>

\* success = await create_tinyurl(session, url_to_send, rec_id)
Create ==
    /\ pc = "create"
    /\ \E out \in HttpOutcomes :
         LET res == create_tinyurl(out) IN
         /\ calls' = Append(calls,
                PostCall(i, records[i].fields.url, records[i].fields.rec_id, out, res))
         /\ IF res.raised
            THEN /\ exc' = res.msg
                 /\ pc' = "except"
                 /\ UNCHANGED success
            ELSE /\ success' = res.value
                 /\ pc' = "write_status"
                 /\ UNCHANGED exc
    /\ UNCHANGED <<variant, AIRTABLE_API_KEY, TINYURL_API_TOKEN, session, records, i>>

\* WriteStatus with the two branches of the if/else exchanged.
WriteStatus_Swapped ==
    /\ pc = "write_status"
    /\ \E out \in HttpOutcomes :
         LET res == update_airtable_script_field(out) IN
         /\ calls' = Append(calls,
                PatchCall(i, records[i].id,
                          IF success THEN "error - tinyurl creation failed"
                                     ELSE "tinyurl valid",
                          IF success THEN "failed" ELSE "success", out, res))
         /\ IF res.raised
            THEN /\ exc' = res.msg
                 /\ pc' = "except"
            ELSE /\ pc' = "sleep"
                 /\ UNCHANGED exc
    /\ UNCHANGED <<variant, AIRTABLE_API_KEY, TINYURL_API_TOKEN, session, records, i,
                   success>>

\* WriteStatus that gives the batch up when the status write returns false.
WriteStatus_ReturnOnFailure ==
    /\ pc = "write_status"
    /\ \E out \in HttpOutcomes :
         LET res == update_airtable_script_field(out) IN
         /\ calls' = Append(calls,
                PatchCall(i, records[i].id,
                          IF success THEN "tinyurl valid"
                                     ELSE "error - tinyurl creation failed",
                          IF success THEN "success" ELSE "failed", out, res))
         /\ IF res.raised
            THEN /\ exc' = res.msg
                 /\ pc' = "except"
                 /\ UNCHANGED session
            ELSE IF res.value
                 THEN /\ pc' = "sleep"
                      /\ UNCHANGED <<exc, session>>
                 ELSE /\ pc' = "completed"
                      /\ session' = "closed"
                      /\ UNCHANGED exc
    /\ UNCHANGED <<variant, AIRTABLE_API_KEY, TINYURL_API_TOKEN, records, i, success>>

\* WriteStatus addressing the record by its rec-id field instead of its id.
WriteStatus_RecIdForRecordId ==
    /\ pc = "write_status"
    /\ \E out \in HttpOutcomes :
         LET res == update_airtable_script_field(out) IN
         /\ calls' = Append(calls,
                PatchCall(i, records[i].fields.rec_id,
                          IF success THEN "tinyurl valid"
                                     ELSE "error - tinyurl creation failed",
                          IF success THEN "success" ELSE "failed", out, res))
         /\ IF res.raised
            THEN /\ exc' = res.msg
                 /\ pc' = "except"
            ELSE /\ pc' = "sleep"
                 /\ UNCHANGED exc
    /\ UNCHANGED <<variant, AIRTABLE_API_KEY, TINYURL_API_TOKEN, session, records, i,
                   success>>

\* WriteStatus without the test of `success`.
WriteStatus_Unconditional ==
    /\ pc = "write_status"
    /\ \E out \in HttpOutcomes :
         LET res == update_airtable_script_field(out) IN
         /\ calls' = Append(calls,
                PatchCall(i, records[i].id, "tinyurl valid", "success", out, res))
         /\ IF res.raised
            THEN /\ exc' = res.msg
                 /\ pc' = "except"
            ELSE /\ pc' = "sleep"
                 /\ UNCHANGED exc
    /\ UNCHANGED <<variant, AIRTABLE_API_KEY, TINYURL_API_TOKEN, session, records, i,
                   success>>

\* The status write of the if/else on `success`, inside the try.
WriteStatus ==
    /\ pc = "write_status"
    /\ \E out \in HttpOutcomes :
         LET res == update_airtable_script_field(out) IN
         /\ calls' = Append(calls,
                PatchCall(i, records[i].id,
                          IF success THEN "tinyurl valid"
                                     ELSE "error - tinyurl creation failed",
                          IF success THEN "success" ELSE "failed", out, res))
         /\ IF res.raised
            THEN /\ exc' = res.msg
                 /\ pc' = "except"
            ELSE /\ pc' = "sleep"
                 /\ UNCHANGED exc
    /\ UNCHANGED <<variant, AIRTABLE_API_KEY, TINYURL_API_TOKEN, session, records, i,
                   success>>

\* await asyncio.sleep(3), the last statement of the try.
Sleep ==
    /\ pc = "sleep"
    /\ calls' = Append(calls, SleepCall(i))
    /\ pc' = "for"
    /\ UNCHANGED <<variant, AIRTABLE_API_KEY, TINYURL_API_TOKEN, session, records, i,
                   success, exc>>

\* ExceptHandler writing the failure status instead of the exception's message.
ExceptHandler_FixedMessage ==
    /\ pc = "except"
    /\ \E out \in HttpOutcomes :
         LET res == update_airtable_script_field(out) IN
         /\ calls' = Append(calls,
                PatchCall(i, records[i].id, "error - tinyurl creation failed",
                          "except", out, res))
         /\ IF res.raised
            THEN /\ exc' = res.msg
                 /\ session' = "closed"
                 /\ pc' = "raised"
            ELSE /\ exc' = ""
                 /\ pc' = "for"
                 /\ UNCHANGED session
    /\ UNCHANGED <<variant, AIRTABLE_API_KEY, TINYURL_API_TOKEN, records, i, success>>

\* ExceptHandler that takes the failed record again instead of going on.
ExceptHandler_Retry ==
    /\ pc = "except"
    /\ \E out \in HttpOutcomes :
         LET res == update_airtable_script_field(out) IN
         /\ calls' = Append(calls,
                PatchCall(i, records[i].id, "error - " \o exc, "except", out, res))
         /\ IF res.raised
            THEN /\ exc' = res.msg
                 /\ session' = "closed"
                 /\ pc' = "raised"
                 /\ UNCHANGED i
            ELSE /\ exc' = ""
                 /\ pc' = "for"
                 /\ i' = i - 1
                 /\ UNCHANGED session
    /\ UNCHANGED <<variant, AIRTABLE_API_KEY, TINYURL_API_TOKEN, records, success>>

\* except Exception as e: the status write of the handler.  An exception raised
\* here is handled nowhere and leaves main.
ExceptHandler ==
    /\ pc = "except"
    /\ \E out \in HttpOutcomes :
         LET res == update_airtable_script_field(out) IN
         /\ calls' = Append(calls,
                PatchCall(i, records[i].id, "error - " \o exc, "except", out, res))
         /\ IF res.raised
            THEN /\ exc' = res.msg
                 /\ session' = "closed"
                 /\ pc' = "raised"
            ELSE /\ exc' = ""
                 /\ pc' = "for"
                 /\ UNCHANGED session
    /\ UNCHANGED <<variant, AIRTABLE_API_KEY, TINYURL_API_TOKEN, records, i, success>>

\* The values the state of main takes.
TypeOK ==
    /\ variant \in Variants
    /\ AIRTABLE_API_KEY \in CredValues
    /\ TINYURL_API_TOKEN \in CredValues
    /\ pc \in {"start", "returned", "open_session", "fetch", "for", "write_missing",
               "create", "write_status", "sleep", "except", "completed", "raised"}
    /\ session \in {"none", "open", "closed"}
    /\ records \in Batches
    /\ i \in 0..Len(records)
    /\ success \in BOOLEAN
    /\ exc \in {"", ConnectError, JsonError, PayloadError}
    /\ \A n \in 1..Len(calls) : calls[n].op \in {"get", "post", "patch", "sleep"}

Next ==
    \/ CheckCredentials
    \/ OpenSession
    \/ Fetch
    \/ ForNext
    \/ WriteMissing
    \/ Create
    \/ WriteStatus
    \/ Sleep
    \/ ExceptHandler

Spec == Init /\ [][Next]_vars

\* main is one coroutine that the event loop resumes whenever the awaited call
\* completes.
FairSpec == Spec /\ WF_vars(Next)

-----------------------------------------------------------------------------
(* Vocabulary of the properties *)

Positions == 1..Len(records)

\* The positions in `calls` of the status writes issued for record k.
Writes(k) == {n \in 1..Len(calls) : calls[n].op = "patch" /\ calls[n].i = k}

\* The positions in `calls` of the alias-creation calls made for record k.
Creates(k) == {n \in 1..Len(calls) : calls[n].op = "post" /\ calls[n].i = k}

\* The loop is through with record k: it went on, or the run ended on it.
Finished(k) ==
    /\ k \in Positions
    /\ \/ k < i
       \/ k = i /\ pc \in {"for", "completed", "raised"}

\* Record k fails the missing-field test.
Invalid(k) == Falsy(records[k].fields.rec_id) \/ Falsy(records[k].fields.url)

\* The run is over.
Ended == pc \in {"returned", "completed", "raised"}

StartsWith(s, p) == Len(s) >= Len(p) /\ SubSeq(s, 1, Len(p)) = p

Contains(s, t) ==
    \E a \in 1..(Len(s) + 1) :
        a + Len(t) <= Len(s) + 1 /\ SubSeq(s, a, a + Len(t) - 1) = t

\* A status write of the try block (the if/else on `success`).
CreatePathWrite(n) == calls[n].op = "patch" /\ calls[n].site \in {"success", "failed"}

-----------------------------------------------------------------------------
(* C1 *)

\* C1 as stated: every record the loop is through with has had exactly one
\* status write issued, and no record ever has two.
C1_ExactlyOneWrite ==
    \A k \in Positions :
        /\ Cardinality(Writes(k)) <= 1
        /\ Finished(k) => Cardinality(Writes(k)) = 1

\* C1 amended: every record the loop is through with has had at least one and
\* at most two status writes issued; there are two exactly when the status
\* write of the create path raised, and the second is the handler's.
C1_OneWriteUnlessCreatePathWriteRaises ==
    \A k \in Positions :
        /\ Cardinality(Writes(k)) <= 2
        /\ Finished(k) => Cardinality(Writes(k)) >= 1
        /\ Cardinality(Writes(k)) = 2 =>
              \E n, m \in Writes(k) :
                  /\ n < m
                  /\ CreatePathWrite(n) /\ calls[n].raised
                  /\ calls[m].site = "except"
        /\ (Finished(k) /\ \E n \in Writes(k) : CreatePathWrite(n) /\ calls[n].raised)
              => Cardinality(Writes(k)) = 2

\* A completed run of two records, one written once and one written twice.
C1_Witness ==
    /\ pc = "completed"
    /\ \E k, l \in Positions :
          Cardinality(Writes(k)) = 1 /\ Cardinality(Writes(l)) = 2

-----------------------------------------------------------------------------
(* C2 *)

\* C2: no record's outcome ends the batch early, so a run that got its batch
\* ends only after the loop has taken every record of it.
C2_EveryRecordProcessed ==
    (Ended /\ records # <<>>) => (i = Len(records) /\ pc = "completed")

-----------------------------------------------------------------------------
(* C3 *)

\* C3: an exception raised by create_tinyurl, by the status write of the
\* create path or by the status write of the missing-field branch does not
\* leave main, and once the loop is through with the record a status
\* "error - <message>" has been written for it after the exception.
C3_FaultCaughtAtRecordBoundary ==
    \A n \in 1..Len(calls) :
        (calls[n].raised /\ calls[n].site \in {"create", "success", "failed", "validate"})
        =>
        /\ ~(pc = "raised" /\ n = Len(calls))
        /\ Finished(calls[n].i) =>
              \E m \in Writes(calls[n].i) :
                  m > n /\ calls[m].status_message = "error - " \o calls[n].msg

-----------------------------------------------------------------------------
(* C4 *)

\* C4: between an alias-creation call and any call made for a later record
\* there is a pacing delay of 3.
C4_PacedAfterEveryAttempt ==
    \A n, m \in 1..Len(calls) :
        (calls[n].op = "post" /\ n < m /\ calls[m].i > calls[n].i)
        => \E d \in (n + 1)..(m - 1) : calls[d].op = "sleep" /\ calls[d].delay = 3

-----------------------------------------------------------------------------
(* C5 *)

\* C5: for a record whose rec-id or URL field is missing or empty,
\* create_tinyurl is never called, every status written is exactly the
\* missing-field message of the entry point, one has been written once the
\* loop is through with the record, and no pacing delay follows it.
C5_InvalidRecordOnlyGetsMissingFieldStatus ==
    \A k \in Positions :
        (k <= i /\ Invalid(k)) =>
            /\ Creates(k) = {}
            /\ \A n \in Writes(k) :
                  /\ calls[n].record_id = records[k].id
                  /\ calls[n].status_message =
                        IF variant = "update"
                        THEN "error - missing rec-id or url-to-send"
                        ELSE "error - missing rec-id or big-url"
            /\ Finished(k) => Writes(k) # {}
            /\ \A n \in 1..Len(calls) : ~(calls[n].op = "sleep" /\ calls[n].i = k)
            /\ \A n \in Writes(k) :
                  n < Len(calls) => calls[n + 1].op # "sleep"

\* An invalid record has been written and the loop has gone on to a valid
\* record, whose alias creation was called.
C5_Witness ==
    \E k \in Positions :
        /\ k < i
        /\ Invalid(k)
        /\ Writes(k) # {}
        /\ Creates(i) # {}

-----------------------------------------------------------------------------
(* C6 *)

\* The status the if/else on `success` writes for a returned value.
StatusFor(value) == IF value THEN "tinyurl valid" ELSE "error - tinyurl creation failed"

\* C6 as stated: when create_tinyurl returned true for a record every status
\* written for it is "tinyurl valid", when it returned false every status
\* written for it is "error - tinyurl creation failed", and one has been
\* written once the loop is through with the record.
C6_StatusIsCreateResultOnly ==
    \A k \in Positions : \A c \in Creates(k) :
        ~calls[c].raised =>
            /\ \A n \in Writes(k) : calls[n].status_message = StatusFor(calls[c].value)
            /\ Finished(k) => Writes(k) # {}

\* C6 amended: the call that follows a returning create_tinyurl is the status
\* write for the same record with "tinyurl valid" for true and
\* "error - tinyurl creation failed" for false; any other status written for
\* the record is the handler's "error - <message>", and only after that first
\* write raised with that message.
C6_FirstStatusIsCreateResult ==
    \A k \in Positions : \A c \in Creates(k) :
        ~calls[c].raised =>
            /\ c = Len(calls) => pc = "write_status"
            /\ c < Len(calls) =>
                  /\ calls[c + 1].op = "patch"
                  /\ calls[c + 1].i = k
                  /\ calls[c + 1].record_id = records[k].id
                  /\ calls[c + 1].status_message =
                        (IF calls[c].value THEN "tinyurl valid"
                                           ELSE "error - tinyurl creation failed")
            /\ \A n \in Writes(k) :
                  n # c + 1 =>
                      /\ n = c + 2
                      /\ calls[c + 1].raised
                      /\ calls[n].status_message = "error - " \o calls[c + 1].msg

\* Both results have been written in one run: "tinyurl valid" after a true
\* and "error - tinyurl creation failed" after a false.
C6_Witness ==
    \E k, l \in Positions : \E c \in Creates(k), d \in Creates(l) :
        /\ ~calls[c].raised /\ calls[c].value
        /\ ~calls[d].raised /\ ~calls[d].value
        /\ c < Len(calls) /\ calls[c + 1].status_message = "tinyurl valid"
        /\ d < Len(calls)
        /\ calls[d + 1].status_message = "error - tinyurl creation failed"

-----------------------------------------------------------------------------
(* C7 *)

\* C7: when create_tinyurl raises e for a record, the next call is a status
\* write for that record whose status starts with "error - " and contains
\* str(e), and neither "tinyurl valid" nor "error - tinyurl creation failed"
\* is written for the record.
C7_RaisedCreateWritesErrorWithMessage ==
    \A k \in Positions : \A c \in Creates(k) :
        calls[c].raised =>
            /\ c = Len(calls) => pc = "except"
            /\ c < Len(calls) =>
                  /\ calls[c + 1].op = "patch"
                  /\ calls[c + 1].i = k
                  /\ calls[c + 1].record_id = records[k].id
                  /\ StartsWith(calls[c + 1].status_message, "error - ")
                  /\ Contains(calls[c + 1].status_message, calls[c].msg)
            /\ \A n \in Writes(k) :
                  calls[n].status_message
                      \notin {"tinyurl valid", "error - tinyurl creation failed"}

\* create_tinyurl raised on a malformed body, and the handler's write followed.
C7_Witness ==
    \E k \in Positions : \E c \in Creates(k) :
        /\ calls[c].raised
        /\ calls[c].msg = JsonError
        /\ c < Len(calls)
        /\ calls[c + 1].status_message = "error - " \o JsonError

-----------------------------------------------------------------------------
(* C8 *)

\* C8: with AIRTABLE_API_KEY or TINYURL_API_TOKEN unset or empty there is
\* never a network call nor a session, and the run only returns.
C8_NoCredentialNoNetwork ==
    (AIRTABLE_API_KEY \in {None, ""} \/ TINYURL_API_TOKEN \in {None, ""}) =>
        /\ calls = <<>>
        /\ session = "none"
        /\ pc \in {"start", "returned"}

\* The run returned for a missing TINYURL_API_TOKEN, AIRTABLE_API_KEY being set.
C8_Witness ==
    /\ pc = "returned"
    /\ AIRTABLE_API_KEY = "secret"
    /\ TINYURL_API_TOKEN \in {None, ""}

-----------------------------------------------------------------------------
(* C9 *)

\* C9: a store read that fails, by a non-200 response or by the request
\* itself failing, yields an empty batch without raising; nothing else is
\* called and the run completes.
C9_FailedFetchIsEmptyBatch ==
    \A n \in 1..Len(calls) :
        (calls[n].op = "get" /\ (calls[n].http.raised \/ calls[n].http.status # 200))
        =>
        /\ ~calls[n].raised
        /\ records = <<>>
        /\ Len(calls) = 1
        /\ pc \in {"for", "completed"}

-----------------------------------------------------------------------------
(* C10 *)

\* C10 as stated: on a response, create_tinyurl returns true only for an
\* explicit success (status 200 with a well-formed body), and for every other
\* response it returns false without raising.
C10_TrueOnlyOnSuccessElseFalse ==
    \A n \in 1..Len(calls) :
        (calls[n].op = "post" /\ ~calls[n].http.raised) =>
            IF calls[n].http.status = 200 /\ calls[n].http.body = "json"
            THEN ~calls[n].raised /\ calls[n].value
            ELSE ~calls[n].raised /\ ~calls[n].value

\* C10 amended: create_tinyurl returns true only for a response of status 200,
\* and returns false for every non-200 response whose body can be read; a 200
\* response with a malformed body is not false: update.py returns true without
\* reading it and update-tinyurl/update.py raises.
C10_TrueOnlyOn200 ==
    \A n \in 1..Len(calls) :
        (calls[n].op = "post" /\ ~calls[n].http.raised) =>
            /\ (~calls[n].raised /\ calls[n].value) => calls[n].http.status = 200
            /\ (calls[n].http.status = 200 /\ calls[n].http.body = "json")
                  => (~calls[n].raised /\ calls[n].value)
            /\ (calls[n].http.status # 200 /\ calls[n].http.body # "unreadable")
                  => (~calls[n].raised /\ ~calls[n].value)
            /\ (calls[n].http.status = 200 /\ calls[n].http.body = "malformed")
                  => IF variant = "update"
                     THEN ~calls[n].raised /\ calls[n].value
                     ELSE calls[n].raised

\* In one run create_tinyurl has answered an error status with false and a
\* 200 with a malformed body with something other than false.
C10_Witness ==
    \E n, m \in 1..Len(calls) :
        /\ calls[n].op = "post" /\ calls[n].http.status = 422
        /\ ~calls[n].raised /\ ~calls[n].value
        /\ calls[m].op = "post" /\ calls[m].http.status = 200
        /\ calls[m].http.body = "malformed"

-----------------------------------------------------------------------------
(* C11 *)

\* The first call the loop makes for a record: the alias creation, or the
\* status write of the missing-field branch.
Entries(k) ==
    {n \in 1..Len(calls) : calls[n].i = k /\ calls[n].site \in {"create", "validate"}}

\* C11: the calls are made in the order of the fetched batch, every call made
\* for a record before any call made for a later one, each status write
\* addressed to the record at that position of the batch, and no record is
\* taken twice.
C11_ProcessedInFetchOrder ==
    /\ \A n, m \in 1..Len(calls) : n < m => calls[n].i <= calls[m].i
    /\ \A n \in 1..Len(calls) :
          calls[n].op # "get" =>
              /\ calls[n].i \in 1..i
              /\ calls[n].op = "patch" => calls[n].record_id = records[calls[n].i].id
              /\ calls[n].op = "post" => calls[n].url = records[calls[n].i].fields.url
    /\ \A k \in Positions :
          /\ Cardinality(Entries(k)) <= 1
          /\ k < i => Cardinality(Entries(k)) = 1

\* Both records of a batch of two have had their calls, the first record's
\* all before the second's.
C11_Witness ==
    /\ Len(records) = 2
    /\ pc = "completed"
    /\ \E n, m \in 1..Len(calls) :
          /\ n < m
          /\ calls[n].i = 1 /\ calls[n].op = "patch" /\ calls[n].record_id = "rec1"
          /\ calls[m].i = 2 /\ calls[m].op = "post" /\ calls[m].alias = "kb-x2"

-----------------------------------------------------------------------------
(* C12 *)

\* A status write that returned false (a non-200 response).
FailedWrite(n) == calls[n].op = "patch" /\ ~calls[n].raised /\ ~calls[n].value

\* C12: create_tinyurl is called at most once for a record; after a status
\* write that returned false the run goes on (to the pacing delay or to the
\* head of the loop), the call that follows is never another alias creation
\* for that record, and the run does not end before the next record has had
\* its calls.
C12_FailedWriteNeitherRepeatsNorAborts ==
    /\ \A k \in Positions : Cardinality(Creates(k)) <= 1
    /\ \A n \in 1..Len(calls) :
          FailedWrite(n) =>
              /\ n = Len(calls) =>
                    \/ /\ i = calls[n].i
                       /\ pc \in {"sleep", "for", "completed"}
                       /\ pc = "sleep" <=> CreatePathWrite(n)
                       /\ pc = "completed" => i = Len(records)
                    \/ /\ i = calls[n].i + 1
                       /\ pc \in {"create", "write_missing"}
              /\ n < Len(calls) =>
                    \/ calls[n + 1].op = "sleep" /\ calls[n + 1].i = calls[n].i
                    \/ calls[n + 1].i = calls[n].i + 1
              /\ (Ended /\ calls[n].i < Len(records)) =>
                    \E m \in 1..Len(calls) : calls[m].i = calls[n].i + 1

\* The status write of a created alias returned false, and the next record's
\* alias creation has been called.
C12_Witness ==
    \E n \in 1..Len(calls) :
        /\ FailedWrite(n)
        /\ calls[n].site = "success"
        /\ Creates(calls[n].i + 1) # {}

-----------------------------------------------------------------------------
(* C13 *)

\* C13: a run that is over either returned at once for a missing credential,
\* having called nothing, or reached the end of the batch with every record
\* processed; once the batch is fetched it is never over by an exception.
C13_EndsByReturnOrCompletion ==
    (Ended /\ (calls = <<>> \/ ~calls[1].raised)) =>
        \/ /\ pc = "returned"
           /\ Falsy(AIRTABLE_API_KEY) \/ Falsy(TINYURL_API_TOKEN)
           /\ calls = <<>>
        \/ /\ pc = "completed"
           /\ ~Falsy(AIRTABLE_API_KEY) /\ ~Falsy(TINYURL_API_TOKEN)
           /\ \A k \in Positions : Finished(k) /\ Writes(k) # {}

-----------------------------------------------------------------------------
(* C14 *)

\* C14: the session is created at most once and closed at most once, never
\* reopened; every call is made while it is open; and whenever the run is
\* over, by return, by completion or by an exception, no session is open.
C14_OneSessionAlwaysReleased ==
    [][/\ session' # session =>
            \/ session = "none" /\ session' = "open"
            \/ session = "open" /\ session' = "closed"
       /\ calls' # calls => session = "open"
       /\ (pc' \in {"returned", "completed", "raised"}) => session' # "open"
       /\ (pc' \notin {"returned", "completed", "raised"} /\ calls' # <<>>)
            => session' = "open"]_vars

\* The run ended by an exception in the middle of the batch and the session
\* is closed.
C14_Witness ==
    /\ pc = "raised"
    /\ session = "closed"
    /\ Len(calls) > 1

-----------------------------------------------------------------------------
(* C15 *)

\* C15: every alias-creation request is made for a valid record and carries
\* that record's URL, "kb-" followed by that record's rec-id, and the domain
\* "tinyurl.com"; a valid record the loop is through with has had exactly one.
C15_RequestCarriesOwnUrlAndKey ==
    /\ \A n \in 1..Len(calls) :
          calls[n].op = "post" =>
              /\ calls[n].i \in Positions
              /\ ~Invalid(calls[n].i)
              /\ calls[n].url = records[calls[n].i].fields.url
              /\ calls[n].alias = "kb-" \o records[calls[n].i].fields.rec_id
              /\ calls[n].domain = "tinyurl.com"
              /\ \A k \in Positions :
                    k # calls[n].i =>
                        /\ calls[n].url # records[k].fields.url
                        /\ calls[n].alias # "kb-" \o records[k].fields.rec_id
    /\ \A k \in Positions :
          (Finished(k) /\ ~Invalid(k)) => Cardinality(Creates(k)) = 1

\* Two valid records have each had their own request: "kb-x1" for the first
\* URL and "kb-x2" for the second.
C15_Witness ==
    \E n, m \in 1..Len(calls) :
        /\ calls[n].op = "post" /\ calls[n].alias = "kb-x1"
        /\ calls[n].url = "http://long/1"
        /\ calls[m].op = "post" /\ calls[m].alias = "kb-x2"
        /\ calls[m].url = "http://long/2"

-----------------------------------------------------------------------------
(* C16 *)

\* C16: when the status write of the exception handler fails, by returning
\* false or by raising, the run does not end on it, and it does not end
\* before the next record has had its calls.
C16_HandlerWriteFailureSwallowed ==
    \A n \in 1..Len(calls) :
        (calls[n].site = "except" /\ (calls[n].raised \/ ~calls[n].value)) =>
            /\ pc # "raised"
            /\ (Ended /\ calls[n].i < Len(records)) =>
                  \E m \in 1..Len(calls) : calls[m].i = calls[n].i + 1

-----------------------------------------------------------------------------
(* C17 *)

\* What the coroutine of entry point v returns or raises on the response that
\* call n got.
ResultUnder(v, n) ==
    CASE calls[n].op = "get" ->
            IF v = "update"
            THEN fetch_airtable_records_update(calls[n].http, records)
            ELSE fetch_airtable_records_tinyurl(calls[n].http, records)
      [] calls[n].op = "post" ->
            IF v = "update"
            THEN create_tinyurl_update(calls[n].http)
            ELSE create_tinyurl_tinyurl(calls[n].http)
      [] OTHER ->
            IF v = "update"
            THEN update_airtable_script_field_update(calls[n].http)
            ELSE update_airtable_script_field_tinyurl(calls[n].http)

\* Call n went as it would have gone in either entry point.
SameInBoth(n) ==
    /\ ResultUnder("update", n) = ResultUnder("update-tinyurl", n)
    /\ calls[n].raised = ResultUnder(variant, n).raised
    /\ calls[n].msg = ResultUnder(variant, n).msg
    /\ (calls[n].op # "get" /\ ~calls[n].raised)
          => calls[n].value = ResultUnder(variant, n).value

\* Every body that update-tinyurl/update.py reads of the response to call n can
\* be read: a 200 creation response parses as JSON, and the body of a non-200
\* response can be read as text.
BodiesReadable(n) ==
    \/ calls[n].http.raised
    \/ calls[n].http.status = 200 /\ calls[n].op \in {"get", "patch"}
    \/ calls[n].http.status = 200 /\ calls[n].op = "post" /\ calls[n].http.body = "json"
    \/ calls[n].http.status # 200 /\ calls[n].http.body # "unreadable"

\* C17 as stated: on the same response every call goes the same way in the
\* two entry points (main being the same in both but for the field names).
C17_EntryPointsAgree ==
    \A n \in 1..Len(calls) : calls[n].op # "sleep" => SameInBoth(n)

\* C17 amended: a call goes the same way in the two entry points when every
\* body update-tinyurl/update.py reads of its response can be read; when one
\* cannot, update-tinyurl/update.py raises where update.py returns.
C17_EntryPointsAgreeOnReadableBodies ==
    \A n \in 1..Len(calls) :
        calls[n].op # "sleep" =>
            IF BodiesReadable(n)
            THEN SameInBoth(n)
            ELSE /\ ~ResultUnder("update", n).raised
                 /\ ResultUnder("update-tinyurl", n).raised
                 /\ calls[n].raised <=> variant = "update-tinyurl"

\* A run of update.py took a 200 creation response with a malformed body for a
\* success and wrote "tinyurl valid", where update-tinyurl/update.py raises;
\* its status write was answered by a readable 422, the same in both.
C17_Witness ==
    /\ variant = "update"
    /\ \E n \in 1..Len(calls) :
          /\ calls[n].op = "post"
          /\ calls[n].http.status = 200 /\ calls[n].http.body = "malformed"
          /\ calls[n].value
          /\ n < Len(calls)
          /\ calls[n + 1].status_message = "tinyurl valid"
          /\ calls[n + 1].http.status = 422 /\ calls[n + 1].http.body = "readable"
          /\ ~calls[n + 1].value

-----------------------------------------------------------------------------
(* C18 *)

\* C18: the first call of a run is the store read and there is no other; the
\* store is otherwise only reached by PATCH requests, each setting the field
\* `script` of a record whose id is in the fetched batch; nothing is created
\* or deleted in the store (the only POST goes to tinyurl.com).
C18_OnlyScriptFieldOfBatchRecords ==
    /\ calls # <<>> => calls[1].op = "get"
    /\ \A n \in 1..Len(calls) :
          /\ calls[n].op \in {"get", "post", "patch", "sleep"}
          /\ calls[n].op = "get" => n = 1
          /\ calls[n].op = "post" => calls[n].domain = "tinyurl.com"
          /\ calls[n].op = "patch" =>
                /\ calls[n].field = "script"
                /\ \E k \in Positions : calls[n].record_id = records[k].id
          /\ (n > 1 /\ calls[n].op # "sleep") => ~calls[1].raised
    /\ (pc \in {"completed", "raised"}) =>
          Cardinality({n \in 1..Len(calls) : calls[n].op = "get"}) = 1

\* A completed run of two records: one store read, then a status write to
\* each of the two records.
C18_Witness ==
    /\ pc = "completed"
    /\ Len(records) = 2
    /\ \E n, m \in 2..Len(calls) :
          /\ calls[n].op = "patch" /\ calls[n].record_id = "rec1"
          /\ calls[m].op = "patch" /\ calls[m].record_id = "rec2"

-----------------------------------------------------------------------------
(* C19 *)

\* C19: "tinyurl valid" is written for a record only after create_tinyurl was
\* called for that record and returned true.
C19_ValidOnlyAfterTrueCreate ==
    \A n \in 1..Len(calls) :
        (calls[n].op = "patch" /\ calls[n].status_message = "tinyurl valid") =>
            /\ ~Invalid(calls[n].i)
            /\ \E c \in Creates(calls[n].i) :
                  c < n /\ ~calls[c].raised /\ calls[c].value
            /\ \A c \in Creates(calls[n].i) : ~calls[c].raised /\ calls[c].value

\* One run in which create_tinyurl raised for a record and returned true for
\* another: only the second got "tinyurl valid".
C19_Witness ==
    \E k, l \in Positions :
        /\ \E c \in Creates(k) : calls[c].raised
        /\ Finished(k)
        /\ \E c \in Creates(l) : ~calls[c].raised /\ calls[c].value
        /\ \E n \in Writes(l) : calls[n].status_message = "tinyurl valid"

-----------------------------------------------------------------------------
(* C20 *)

\* C20: no record has more than two status writes issued; a second one comes
\* from the exception handler, right after the write of the create path
\* raised, with a status that starts with "error - "; a record that fails the
\* missing-field test has at most one.
C20_SecondWriteOnlyFromHandler ==
    \A k \in Positions :
        /\ Cardinality(Writes(k)) <= 2
        /\ Invalid(k) => Cardinality(Writes(k)) <= 1
        /\ \A n, m \in Writes(k) :
              n < m =>
                  /\ m = n + 1
                  /\ calls[n].site \in {"success", "failed"}
                  /\ calls[n].raised
                  /\ calls[m].site = "except"
                  /\ StartsWith(calls[m].status_message, "error - ")
                  /\ Len(calls[m].status_message) = Len("error - ") + Len(calls[n].msg)

\* The write of "tinyurl valid" raised and the handler wrote a second status
\* for the record; an invalid record of the same run was written once.
C20_Witness ==
    \E k, l \in Positions :
        /\ Invalid(l) /\ Finished(l) /\ Cardinality(Writes(l)) = 1
        /\ \E n, m \in Writes(k) :
              /\ n < m
              /\ calls[n].status_message = "tinyurl valid"
              /\ calls[m].status_message = "error - " \o ConnectError

====
